---- MODULE Spec2Model ----
(***************************************************************************)
(* Model of toutiao_auto.py: boot, cookie reuse / interactive login, and   *)
(* the poll loop of main (fetch -> skip or publish each item -> wait).     *)
(* Strings that the program transforms (identifiers, file contents) are    *)
(* tuples of one-character strings, so that str.strip() is computed.       *)
(***************************************************************************)
EXTENDS Integers, Sequences, FiniteSets, TLC

\* ---------------------------------------------------------------- bounds
MaxLen == 3              \* longest upstream response (the code asks for limit=10)
MaxCycles == 2           \* fetches, counted over all process runs
MaxRuns == 2             \* process runs (1 + restarts)
MaxLoginPolls == 1       \* iterations of the login wait loop that still see "login"
FETCH_INTERVAL_SEC == 2  \* countdown length (60 in the source, scaled down)

\* ------------------------------------------------------------ identifiers
id1 == <<"1">>
id2 == <<"2">>
id3 == <<"3">>
Ids == {id1, id2, id3}
Empty == <<>>
id1Newline == <<"1", "\n">>   \* a marker file saved by an editor: "1" and a newline

Whitespace == {" ", "\t", "\n", "\r"}

RECURSIVE LStrip(_)
LStrip(s) == IF s # <<>> /\ Head(s) \in Whitespace THEN LStrip(Tail(s)) ELSE s

RECURSIVE RStrip(_)
RStrip(s) ==
    IF s # <<>> /\ s[Len(s)] \in Whitespace THEN RStrip(SubSeq(s, 1, Len(s) - 1)) ELSE s

Strip(s) == RStrip(LStrip(s))

\* --------------------------------------------------------- upstream items
\* has_zh: content_multilingual is a dict with a truthy "zh" entry.
Item(i, h, t, s) == [id |-> i, has_zh |-> h, title |-> t, summary |-> s]

Items == {Item(i, TRUE, "T", "S") : i \in Ids}
           \cup {Item(id3, FALSE, "", ""), Item(id3, TRUE, "", "S"),
                 Item(id3, TRUE, "T", "")}

\* variant: the filter looks at the title only
IsValid_TitleOnly(news) == news.has_zh /\ news.title # ""

IsValid(news) == news.has_zh /\ news.title # "" /\ news.summary # ""

\* variant: the retained items are collected in reverse order
RECURSIVE FilterValid_Reversed(_)
FilterValid_Reversed(items) ==
    IF items = <<>> THEN <<>>
    ELSE IF IsValid(Head(items)) THEN FilterValid_Reversed(Tail(items)) \o <<Head(items)>>
    ELSE FilterValid_Reversed(Tail(items))

RECURSIVE FilterValid(_)
FilterValid(items) ==
    IF items = <<>> THEN <<>>
    ELSE IF IsValid(Head(items)) THEN <<Head(items)>> \o FilterValid(Tail(items))
    ELSE FilterValid(Tail(items))

SeqsUpTo(S, n) == UNION {[1..k -> S] : k \in 0..n}
\* upstream responses: at most MaxLen items, identifiers unique within a response
DistinctIds(items) ==
    \A j, k \in 1..Len(items) : j # k => items[j].id # items[k].id
RawBatches == {items \in SeqsUpTo(Items, MaxLen) : DistinctIds(items)}

FetchFailures == {"network_error", "http_error", "json_error", "malformed"}

VARIABLES
    \* configuration and durable storage
    apiUrlSet, paramsKind, cookieFile, cookieEpoch, fileExists, fileText,
    \* process state
    pc, last_id, news_list, idx, published_count, ret, loadResult, polls,
    countdown, exitReason,
    \* observation (history) variables
    run, cycle, attempts, failedAt, pre, marked, lastOk, quits, fatalFrom,
    fetchOutcome, loginCleared, reachedList, failedStep, cycleStart, sameFeed,
    hadFailure, skips, swallowed, contentSource, upstream

vars == <<apiUrlSet, paramsKind, cookieFile, cookieEpoch, fileExists, fileText,
          pc, last_id, news_list, idx, published_count, ret, loadResult, polls,
          countdown, exitReason,
          run, cycle, attempts, failedAt, pre, marked, lastOk, quits, fatalFrom,
          fetchOutcome, loginCleared, reachedList, failedStep, cycleStart, sameFeed,
          hadFailure, skips, swallowed, contentSource, upstream>>

config == <<apiUrlSet, paramsKind>>
cookies == <<cookieFile, cookieEpoch>>
markerFile == <<fileExists, fileText>>
loopState == <<news_list, idx, published_count>>
cycleObs == <<attempts, failedAt, pre>>
publishObs == <<reachedList, failedStep>>
siteObs == <<marked, lastOk>>
feedObs == <<cycleStart, sameFeed, hadFailure>>
extraObs == <<skips, swallowed, contentSource, upstream>>

Marker == [last |-> last_id, exists |-> fileExists, text |-> fileText]

\* program positions inside the try block of main
TryPcs == {"load_cookies", "login_get", "login_wait", "save_cookies", "fetch",
           "iter", "publish_nav", "publish_try", "publish_settle", "ret", "wait"}

Init ==
    /\ apiUrlSet \in BOOLEAN
    /\ paramsKind \in {"dict", "list"}
    /\ cookieFile \in {"absent", "corrupt", "stored"}
    /\ cookieEpoch = 0
    /\ \/ fileExists = FALSE /\ fileText = Empty
       \/ fileExists = TRUE /\ fileText \in {id1, id1Newline}
    /\ pc = "boot"
    /\ last_id = Empty
    /\ news_list = <<>>
    /\ idx = 0
    /\ published_count = 0
    /\ ret = FALSE
    /\ loadResult = "none"
    /\ polls = 0
    /\ countdown = 0
    /\ exitReason = "none"
    /\ run = 1
    /\ cycle = 0
    /\ attempts = <<>>
    /\ failedAt = 0
    /\ pre = Marker
    /\ marked = {}
    /\ lastOk = Empty
    /\ quits = 0
    /\ fatalFrom = "none"
    /\ fetchOutcome = "none"
    /\ loginCleared = FALSE
    /\ reachedList = FALSE
    /\ failedStep = "none"
    /\ cycleStart = Empty
    /\ sameFeed = FALSE
    /\ hadFailure = FALSE
    /\ skips = <<>>
    /\ swallowed = FALSE
    /\ contentSource = "none"
    /\ upstream = <<>>

\* an exception reaches the handlers of main (lines 347-350) raised by f
Raise(reason, f) ==
    /\ pc' = "finally"
    /\ exitReason' = reason
    /\ fatalFrom' = f

\* the memory of a process that is not running (and of one just started)
NoProcessState ==
    /\ last_id' = Empty
    /\ news_list' = <<>>
    /\ idx' = 0
    /\ published_count' = 0
    /\ ret' = FALSE
    /\ loadResult' = "none"
    /\ polls' = 0
    /\ countdown' = 0
    /\ attempts' = <<>>
    /\ failedAt' = 0
    /\ pre' = [last |-> Empty, exists |-> fileExists, text |-> fileText]
    /\ fetchOutcome' = "none"
    /\ loginCleared' = FALSE
    /\ reachedList' = FALSE
    /\ failedStep' = "none"
    /\ cycleStart' = Empty
    /\ sameFeed' = FALSE
    /\ hadFailure' = FALSE
    /\ skips' = <<>>
    /\ swallowed' = FALSE
    /\ contentSource' = "none"
    /\ upstream' = <<>>

\* main, lines 274-275 and browser creation 277-299
Boot ==
    /\ pc = "boot"
    /\ last_id' = IF fileExists THEN Strip(fileText) ELSE Empty
    /\ pc' = "load_cookies"
    /\ UNCHANGED <<config, extraObs, feedObs, cookies, markerFile, loopState, ret,
                   loadResult, polls, countdown, exitReason, run, cycle, cycleObs,
                   marked, lastOk, quits, fatalFrom, fetchOutcome, loginCleared,
                   publishObs>>

\* variant: a successful validation also rewrites the cookie file
LoadCookies_SavesOnOk ==
    /\ pc = "load_cookies"
    /\ \E r \in {"nofile", "error", "redirect", "ok"} :
          /\ r = "nofile" <=> cookieFile = "absent"
          /\ cookieFile = "corrupt" => r = "error"
          /\ loadResult' = r
          /\ pc' = IF r = "ok" THEN "fetch" ELSE "login_get"
          /\ cookieFile' = cookieFile
          /\ cookieEpoch' = IF r = "ok" THEN run ELSE cookieEpoch
    /\ UNCHANGED <<config, extraObs, markerFile, last_id, loopState, ret, polls,
                   countdown, exitReason, run, cycle, cycleObs, siteObs, quits,
                   fatalFrom, fetchOutcome, loginCleared, publishObs, feedObs>>

\* load_cookies, lines 60-93, and the branch of main at line 303
LoadCookies ==
    /\ pc = "load_cookies"
    /\ \E r \in {"nofile", "error", "redirect", "ok"} :
          /\ r = "nofile" <=> cookieFile = "absent"
          /\ cookieFile = "corrupt" => r = "error"
          /\ loadResult' = r
          /\ pc' = IF r = "ok" THEN "fetch" ELSE "login_get"
    /\ UNCHANGED <<config, extraObs, feedObs, cookies, markerFile, last_id,
                   loopState, ret, polls, countdown, exitReason, run, cycle,
                   cycleObs, marked, lastOk, quits, fatalFrom, fetchOutcome,
                   loginCleared, publishObs>>

\* main, line 305
LoginGet ==
    /\ pc = "login_get"
    /\ \/ /\ pc' = "login_wait"
          /\ UNCHANGED <<exitReason, fatalFrom>>
       \/ Raise("fatal", "login_get")
    /\ UNCHANGED <<config, extraObs, feedObs, cookies, markerFile, last_id,
                   loopState, ret, loadResult, polls, countdown, run, cycle,
                   cycleObs, marked, lastOk, quits, fetchOutcome, loginCleared,
                   publishObs>>

\* variant: the login wait ends whatever the URL is
LoginLoopExits_Always(urlHasLogin) == TRUE

\* the condition that ends the login wait loop, line 307
LoginLoopExits(urlHasLogin) == ~urlHasLogin

\* main, lines 307-308
LoginPoll ==
    /\ pc = "login_wait"
    /\ \E urlHasLogin \in BOOLEAN :
          IF LoginLoopExits(urlHasLogin)
          THEN /\ pc' = "save_cookies"
               /\ loginCleared' = ~urlHasLogin
               /\ polls' = 0
          ELSE /\ polls < MaxLoginPolls
               /\ polls' = polls + 1
               /\ UNCHANGED <<pc, loginCleared>>
    /\ UNCHANGED <<config, extraObs, feedObs, cookies, markerFile, last_id,
                   loopState, ret, loadResult, countdown, exitReason, run, cycle,
                   cycleObs, marked, lastOk, quits, fatalFrom, fetchOutcome,
                   publishObs>>

\* variant: the poll loop is entered without writing the cookie file
SaveCookies_NoWrite ==
    /\ pc = "save_cookies"
    /\ pc' = "fetch"
    /\ UNCHANGED <<config, extraObs, feedObs, cookies, markerFile, last_id,
                   loopState, ret, loadResult, polls, countdown, exitReason,
                   fatalFrom, run, cycle, cycleObs, marked, lastOk, quits,
                   fetchOutcome, loginCleared, publishObs>>

\* save_cookies, lines 95-99, called at line 309
SaveCookies ==
    /\ pc = "save_cookies"
    /\ \/ /\ cookieFile' = "stored"
          /\ cookieEpoch' = run
          /\ pc' = "fetch"
          /\ UNCHANGED <<exitReason, fatalFrom>>
       \/ /\ cookieFile' \in {cookieFile, "corrupt"}
          /\ cookieEpoch' = cookieEpoch
          /\ Raise("fatal", "save_cookies")
    /\ UNCHANGED <<config, extraObs, feedObs, markerFile, last_id, loopState, ret,
                   loadResult, polls, countdown, run, cycle, cycleObs, marked,
                   lastOk, quits, fetchOutcome, loginCleared, publishObs>>

\* get_latest_news_list, lines 103-159, and the branch of main at line 318
Fetch ==
    /\ pc = "fetch"
    /\ cycle < MaxCycles
    /\ cycle' = cycle + 1
    /\ attempts' = <<>>
    /\ failedAt' = 0
    /\ pre' = Marker
    /\ cycleStart' = last_id
    /\ ret' = FALSE
    /\ reachedList' = FALSE
    /\ failedStep' = "none"
    /\ skips' = <<>>
    /\ swallowed' = FALSE
    /\ contentSource' = "none"
    /\ IF ~apiUrlSet
       THEN /\ fetchOutcome' = "no_url"
            /\ news_list' = <<>>
            /\ pc' = "wait"
            /\ UNCHANGED <<exitReason, fatalFrom>>
       ELSE IF paramsKind # "dict"
       THEN /\ fetchOutcome' = "raised"
            /\ news_list' = news_list
            /\ Raise("fatal", "get_latest_news_list")
       ELSE /\ \E o \in FetchFailures \cup {"ok"} :
                 /\ fetchOutcome' = o
                 /\ IF o = "ok"
                    THEN \E raw \in RawBatches : news_list' = FilterValid(raw)
                    ELSE news_list' = <<>>
            /\ pc' = IF news_list' # <<>> THEN "iter" ELSE "wait"
            /\ UNCHANGED <<exitReason, fatalFrom>>
    /\ idx' = IF pc' = "iter" THEN 1 ELSE 0
    /\ sameFeed' = (fetchOutcome = "none" \/ (sameFeed /\ news_list' = news_list))
    /\ published_count' = IF pc' = "iter" THEN 0 ELSE published_count
    /\ countdown' = IF pc' = "wait" THEN FETCH_INTERVAL_SEC ELSE countdown
    /\ UNCHANGED <<config, upstream, hadFailure, cookies, markerFile, last_id,
                   loadResult, polls, run, marked, lastOk, quits, loginCleared>>

\* variant: the skip test uses the marker as it was when the cycle started
IsNew_AgainstCycleStart(c_id, marker) == c_id # cycleStart

\* the skip test of main, line 322
IsNew(c_id, marker) == c_id # marker

\* main, lines 320-322 and 332-334: the item equals the marker
SkipItem ==
    /\ pc = "iter"
    /\ idx <= Len(news_list)
    /\ ~IsNew(news_list[idx].id, last_id)
    /\ idx' = idx + 1
    /\ skips' = Append(skips, idx)
    /\ UNCHANGED <<config, swallowed, contentSource, upstream, feedObs, cookies,
                   markerFile, pc, last_id, news_list, published_count, ret,
                   loadResult, polls, countdown, exitReason, run, cycle, cycleObs,
                   marked, lastOk, quits, fatalFrom, fetchOutcome, loginCleared,
                   publishObs>>

\* main, lines 320-324: the item differs from the marker, publish_micro is called
StartPublish ==
    /\ pc = "iter"
    /\ idx <= Len(news_list)
    /\ IsNew(news_list[idx].id, last_id)
    /\ pc' = "publish_nav"
    /\ attempts' = Append(attempts, idx)
    /\ pre' = Marker
    /\ reachedList' = FALSE
    /\ failedStep' = "none"
    /\ UNCHANGED <<config, extraObs, feedObs, cookies, markerFile, last_id,
                   loopState, ret, loadResult, polls, countdown, exitReason, run,
                   cycle, failedAt, marked, lastOk, quits, fatalFrom, fetchOutcome,
                   loginCleared>>

\* main, lines 320 and 336-344: the for loop is exhausted
EndBatch ==
    /\ pc = "iter"
    /\ idx > Len(news_list)
    /\ pc' = "wait"
    /\ countdown' = FETCH_INTERVAL_SEC
    /\ UNCHANGED <<config, extraObs, feedObs, cookies, markerFile, last_id,
                   loopState, ret, loadResult, polls, exitReason, run, cycle,
                   cycleObs, marked, lastOk, quits, fatalFrom, fetchOutcome,
                   loginCleared, publishObs>>

\* publish_micro, lines 176-189: which title and text are published
ContentSource(news) ==
    IF news.has_zh /\ news.title # "" /\ news.summary # "" THEN "zh" ELSE "fallback"

\* publish_micro, lines 174-195: content selection and driver.get, outside the try
PublishNavigate ==
    /\ pc = "publish_nav"
    /\ contentSource' = ContentSource(news_list[idx])
    /\ \/ /\ pc' = "publish_try"
          /\ UNCHANGED <<exitReason, fatalFrom, failedStep>>
       \/ /\ failedStep' = "NAVIGATE"
          /\ Raise("fatal", "publish_micro")
    /\ UNCHANGED <<config, skips, swallowed, upstream, feedObs, cookies, markerFile,
                   last_id, loopState, ret, loadResult, polls, countdown, run, cycle,
                   cycleObs, marked, lastOk, quits, fetchOutcome, loginCleared,
                   reachedList>>

\* publish_micro, lines 197-254 and the handler 258-268; an error while
\* dismissing overlays (lines 214-224) is swallowed and changes nothing
PublishTry ==
    /\ pc = "publish_try"
    /\ swallowed' = FALSE
    /\ \E o \in {"ok", "COMPOSE", "SUBMIT", "CONFIRM"} :
          IF o = "ok"
          THEN /\ reachedList' = TRUE
               /\ pc' = "publish_settle"
               /\ UNCHANGED <<ret, failedStep, failedAt, hadFailure, lastOk>>
          ELSE /\ failedStep' = o
               /\ ret' = FALSE
               /\ failedAt' = idx
               /\ hadFailure' = TRUE
               /\ pc' = "ret"
               /\ UNCHANGED <<reachedList, lastOk>>
    /\ UNCHANGED <<config, skips, contentSource, upstream, cycleStart, sameFeed,
                   cookies, markerFile, last_id, loopState, loadResult, polls,
                   countdown, exitReason, run, cycle, attempts, pre, marked, quits,
                   fatalFrom, fetchOutcome, loginCleared>>

\* publish_micro, lines 255-257
PublishSettle ==
    /\ pc = "publish_settle"
    /\ ret' = TRUE
    /\ pc' = "ret"
    /\ lastOk' = news_list[idx].id
    /\ UNCHANGED <<config, extraObs, feedObs, cookies, markerFile, last_id,
                   loopState, loadResult, polls, countdown, exitReason, run, cycle,
                   cycleObs, marked, quits, fatalFrom, fetchOutcome, loginCleared,
                   publishObs>>

\* variant: a success updates last_id but not the marker file
MarkPublished_MemoryOnly ==
    /\ pc = "ret"
    /\ ret
    /\ last_id' = news_list[idx].id
    /\ published_count' = published_count + 1
    /\ marked' = marked \cup {news_list[idx].id}
    /\ idx' = idx + 1
    /\ pc' = "iter"
    /\ UNCHANGED <<config, extraObs, feedObs, cookies, markerFile, news_list, ret,
                   loadResult, polls, countdown, exitReason, fatalFrom, run, cycle,
                   cycleObs, lastOk, quits, fetchOutcome, loginCleared, publishObs>>

\* main, lines 324-328: publish_micro returned True
MarkPublished ==
    /\ pc = "ret"
    /\ ret
    /\ last_id' = news_list[idx].id
    /\ \/ /\ fileExists' = TRUE
          /\ fileText' = news_list[idx].id
          /\ published_count' = published_count + 1
          /\ marked' = marked \cup {news_list[idx].id}
          /\ idx' = idx + 1
          /\ pc' = "iter"
          /\ UNCHANGED <<exitReason, fatalFrom>>
       \/ /\ \/ UNCHANGED markerFile
             \/ fileExists' = TRUE /\ fileText' = Empty
          /\ Raise("fatal", "write_text")
          /\ UNCHANGED <<published_count, marked, idx>>
    /\ UNCHANGED <<config, extraObs, feedObs, cookies, news_list, ret, loadResult,
                   polls, countdown, run, cycle, cycleObs, lastOk, quits,
                   fetchOutcome, loginCleared, publishObs>>

\* variant: the loop goes on to the next item after a failed publish
BreakOnFail_ContinuesBatch ==
    /\ pc = "ret"
    /\ ~ret
    /\ pc' = "iter"
    /\ idx' = idx + 1
    /\ UNCHANGED <<config, extraObs, feedObs, cookies, markerFile, last_id, news_list,
                   published_count, ret, loadResult, polls, countdown, exitReason,
                   run, cycle, cycleObs, marked, lastOk, quits, fatalFrom,
                   fetchOutcome, loginCleared, publishObs>>

\* main, lines 329-331 and 336-344: publish_micro returned False
BreakOnFail ==
    /\ pc = "ret"
    /\ ~ret
    /\ pc' = "wait"
    /\ countdown' = FETCH_INTERVAL_SEC
    /\ UNCHANGED <<config, extraObs, feedObs, cookies, markerFile, last_id,
                   loopState, ret, loadResult, polls, exitReason, run, cycle,
                   cycleObs, marked, lastOk, quits, fatalFrom, fetchOutcome,
                   loginCleared, publishObs>>

\* main, lines 344-345: one second of the countdown
WaitTick ==
    /\ pc = "wait"
    /\ countdown > 1
    /\ countdown' = countdown - 1
    /\ UNCHANGED <<config, extraObs, feedObs, cookies, markerFile, pc, last_id,
                   loopState, ret, loadResult, polls, exitReason, run, cycle,
                   cycleObs, marked, lastOk, quits, fatalFrom, fetchOutcome,
                   loginCleared, publishObs>>

\* main, lines 344-345 and 314: the last second, back to the top of the loop
WaitDone ==
    /\ pc = "wait"
    /\ countdown = 1
    /\ countdown' = 0
    /\ pc' = "fetch"
    /\ UNCHANGED <<config, extraObs, feedObs, cookies, markerFile, last_id,
                   loopState, ret, loadResult, polls, exitReason, run, cycle,
                   cycleObs, marked, lastOk, quits, fatalFrom, fetchOutcome,
                   loginCleared, publishObs>>

\* KeyboardInterrupt inside the try block of main, lines 347-348
Interrupt ==
    /\ pc \in TryPcs
    /\ Raise("interrupt", fatalFrom)
    /\ UNCHANGED <<config, extraObs, feedObs, cookies, markerFile, last_id,
                   loopState, ret, loadResult, polls, countdown, run, cycle,
                   cycleObs, marked, lastOk, quits, fetchOutcome, loginCleared,
                   publishObs>>

\* KeyboardInterrupt while publish_micro dismisses overlays: the bare except
\* clauses of lines 221 and 223 catch it and the attempt goes on; swallowed
\* records it for the rest of the try block of publish_micro
SwallowInterrupt ==
    /\ pc = "publish_try"
    /\ swallowed' = TRUE
    /\ UNCHANGED <<config, cookies, markerFile, pc, last_id, loopState, ret,
                   loadResult, polls, countdown, exitReason, run, cycle, cycleObs,
                   siteObs, quits, fatalFrom, fetchOutcome, loginCleared, publishObs,
                   feedObs, skips, contentSource, upstream>>

\* variant: the process exits without driver.quit
Quit_NoTeardown ==
    /\ pc = "finally"
    /\ quits' = quits
    /\ pc' = "done"
    /\ NoProcessState
    /\ UNCHANGED <<config, cookies, markerFile, exitReason, run, cycle, marked,
                   lastOk, fatalFrom>>

\* main, lines 351-352; the process then exits
Quit ==
    /\ pc = "finally"
    /\ quits' = quits + 1
    /\ pc' = "done"
    /\ NoProcessState
    /\ UNCHANGED <<config, cookies, markerFile, exitReason, run, cycle, marked,
                   lastOk, fatalFrom>>

\* the process is killed (power loss, SIGKILL): no handler runs
Crash ==
    /\ pc \notin {"done", "dead"}
    /\ pc' = "dead"
    /\ NoProcessState
    /\ UNCHANGED <<config, cookies, markerFile, exitReason, run, cycle, marked,
                   lastOk, quits, fatalFrom>>

\* the script is started again (line 355): only the files survive
Restart ==
    /\ pc \in {"done", "dead"}
    /\ run < MaxRuns
    /\ run' = run + 1
    /\ pc' = "boot"
    /\ NoProcessState
    /\ exitReason' = "none"
    /\ quits' = 0
    /\ fatalFrom' = "none"
    /\ UNCHANGED <<config, cookies, markerFile, cycle, marked, lastOk>>

Next ==
    \/ Boot
    \/ LoadCookies
    \/ LoginGet
    \/ LoginPoll
    \/ SaveCookies
    \/ Fetch
    \/ SkipItem
    \/ StartPublish
    \/ EndBatch
    \/ PublishNavigate
    \/ PublishTry
    \/ PublishSettle
    \/ MarkPublished
    \/ BreakOnFail
    \/ WaitTick
    \/ WaitDone
    \/ Interrupt
    \/ SwallowInterrupt
    \/ Quit
    \/ Crash
    \/ Restart

Spec == Init /\ [][Next]_vars

TypeOK ==
    /\ pc \in TryPcs \cup {"boot", "finally", "done", "dead"}
    /\ last_id \in Ids \cup {Empty}
    /\ idx \in 0..(MaxLen + 1)
    /\ cycle \in 0..MaxCycles
    /\ run \in 1..MaxRuns

\* ------------------------------------------------------------ properties
IdsOf(list) == [k \in 1..Len(list) |-> list[k].id]
Range(f) == {f[k] : k \in DOMAIN f}
PollPcs == {"fetch", "iter", "publish_nav", "publish_try", "publish_settle", "ret", "wait"}

\* C1: an item is published at most once: an item whose identifier was
\* written to the marker by a successful publish is never passed to
\* publish_micro again, in the same cycle or in a later one.
C1_PublishedAtMostOnce ==
    pc = "publish_nav" => news_list[idx].id \notin marked

\* C2: with the marker at "1" and the batch ["3","2","1"], the cycle attempts
\* only "3" and then "2", never "1"; the marker ends at "2" when both
\* succeed and at "3" when "3" succeeds and "2" fails.
C2_Scenario321 ==
    (cycleStart = id1 /\ IdsOf(news_list) = <<id3, id2, id1>> /\ pc \in PollPcs
        /\ fetchOutcome = "ok")
    => /\ 3 \notin Range(attempts)
       /\ attempts \in {<<>>, <<1>>, <<1, 2>>}
       /\ (pc = "wait" /\ published_count = 2 => last_id = id2 /\ fileText = id2)
       /\ (pc = "wait" /\ failedAt = 2 => last_id = id3 /\ fileText = id3)

\* C3: when publish_micro returns False for the item at position k, no later
\* position is attempted in that cycle, the failed item is not attempted
\* again, the marker in memory and on disk is what it was when the attempt
\* started, and control goes to the wait phase.
C3_FailureStopsCycle ==
    /\ (pc = "ret" /\ ~ret => failedAt = idx)
    /\ failedAt # 0 =>
          /\ pc \in {"ret", "wait", "fetch", "finally"}
          /\ (pc = "ret" => ~ret)
          /\ attempts # <<>>
          /\ attempts[Len(attempts)] = failedAt
          /\ \A j \in 1..(Len(attempts) - 1) : attempts[j] < failedAt
          /\ Marker = pre

C3_Witness ==
    /\ pc = "wait"
    /\ failedAt = 2
    /\ Len(news_list) = 3
    /\ published_count = 1

\* C4: after publish_micro succeeded for X the marker file names X even if
\* the process dies at any point, so a restarted process boots with the
\* identifier of the last item whose publish succeeded.
C4_DurableAfterSuccess ==
    /\ (pc \in {"iter", "wait"} /\ lastOk # Empty /\ published_count > 0
          => fileExists /\ fileText = lastOk)
    /\ (pc = "load_cookies" /\ lastOk # Empty => last_id = lastOk)

\* C5: when load_cookies returned False, nothing is published before the
\* login wait has seen a URL without "login".
C5_LoginBeforePublish ==
    (loadResult \in {"nofile", "error", "redirect"} /\ ~loginCleared)
    => /\ pc \in {"login_get", "login_wait", "finally"}
       /\ attempts = <<>>
       /\ fetchOutcome = "none"

C5_Witness ==
    /\ loadResult = "redirect"
    /\ loginCleared
    /\ pc = "publish_try"

\* C6: after a login-page redirect at validation, the session is saved by
\* this run before the first fetch; no fetch happens before the save.
C6_SaveBeforeFetch ==
    (loadResult = "redirect" /\ (pc \in PollPcs \/ fetchOutcome # "none"))
    => /\ loginCleared
       /\ cookieFile = "stored"
       /\ cookieEpoch = run

C6_Witness ==
    /\ loadResult = "redirect"
    /\ fetchOutcome = "ok"
    /\ cookieFile = "stored"
    /\ cookieEpoch = run

\* C7: get_latest_news_list never raises to main, every failure gives the
\* empty list, and a cycle with an empty fetch attempts nothing, leaves the
\* marker alone and goes to the wait phase.
C7_FetchNeverRaises ==
    /\ fatalFrom # "get_latest_news_list"
    /\ (fetchOutcome \in FetchFailures \cup {"no_url"} => news_list = <<>>)
    /\ (fetchOutcome # "none" /\ news_list = <<>> /\ pc \in PollPcs
          => pc \in {"wait", "fetch"} /\ attempts = <<>> /\ Marker = pre)

\* C8: publish_micro returns True only after the listing URL was reached,
\* and a failure at any step is returned as False, never raised to main.
C8_PublishTotal ==
    /\ (pc = "ret" /\ ret => reachedList)
    /\ (failedStep # "none" => ~ret /\ fatalFrom # "publish_micro")

\* C9: the marker changes only by a successful publish, to the identifier of
\* the item just published, in memory and on disk together, and it never goes
\* back to an identifier it named before.
C9_MarkerMonotone ==
    [][(pc \in TryPcs /\ pc' \in TryPcs /\ Marker' # Marker)
         => /\ pc = "ret" /\ ret
            /\ last_id' = news_list[idx].id
            /\ fileExists' /\ fileText' = last_id'
            /\ last_id' \notin marked]_vars

\* C10: with a feed that keeps returning the same batch, after a failed
\* publish no retained item is skipped for good (a cycle without a failure
\* leaves every item published) and no item already published is submitted
\* again.
C10_RecoveryNoReprocess ==
    /\ (sameFeed /\ hadFailure /\ pc = "publish_nav"
          => news_list[idx].id \notin marked)
    /\ (sameFeed /\ hadFailure /\ pc = "wait" /\ failedAt = 0
          => \A k \in 1..Len(news_list) : news_list[k].id \in marked \cup {cycleStart})

\* ------------------------------------------- the filter as a pure function
\* decoded responses given to the filter loop, repeated identifiers included
FilterInputs == SeqsUpTo(Items, MaxLen)

FilterInit ==
    /\ apiUrlSet = TRUE
    /\ paramsKind = "dict"
    /\ cookieFile = "stored"
    /\ cookieEpoch = 0
    /\ fileExists = FALSE
    /\ fileText = Empty
    /\ pc = "filter_in"
    /\ last_id = Empty
    /\ news_list = <<>>
    /\ idx = 0
    /\ published_count = 0
    /\ ret = FALSE
    /\ loadResult = "ok"
    /\ polls = 0
    /\ countdown = 0
    /\ exitReason = "none"
    /\ run = 1
    /\ cycle = 0
    /\ attempts = <<>>
    /\ failedAt = 0
    /\ pre = Marker
    /\ marked = {}
    /\ lastOk = Empty
    /\ quits = 0
    /\ fatalFrom = "none"
    /\ fetchOutcome = "none"
    /\ loginCleared = FALSE
    /\ reachedList = FALSE
    /\ failedStep = "none"
    /\ cycleStart = Empty
    /\ sameFeed = FALSE
    /\ hadFailure = FALSE
    /\ skips = <<>>
    /\ swallowed = FALSE
    /\ contentSource = "none"
    /\ upstream \in FilterInputs

\* get_latest_news_list, lines 132-154, on a decoded response
ApplyFilter ==
    /\ pc = "filter_in"
    /\ news_list' = FilterValid(upstream)
    /\ fetchOutcome' = "ok"
    /\ pc' = "filter_out"
    /\ UNCHANGED <<config, cookies, markerFile, last_id, idx, published_count, ret,
                   loadResult, polls, countdown, exitReason, run, cycle, cycleObs,
                   siteObs, quits, fatalFrom, loginCleared, publishObs, feedObs,
                   extraObs>>

FilterNext == ApplyFilter

FilterSpec == FilterInit /\ [][FilterNext]_vars

\* ------------------------------------------------ properties, second part
PublishPcs == {"publish_nav", "publish_try", "publish_settle"}

\* C11: a shutdown signal takes effect only between countdown iterations or
\* between batch items: it never aborts a publish attempt that is underway,
\* and every signal ends the loop (none is lost).
C11_CooperativeShutdown ==
    [][/\ (exitReason' = "interrupt" /\ exitReason # "interrupt" => pc \notin PublishPcs)
       /\ ~swallowed']_vars

\* C12: whenever main leaves the login/poll section, by a shutdown signal or
\* by an exception, driver.quit runs exactly once before the process exits,
\* and nothing is fetched or published after it.
C12_TeardownOnce ==
    /\ quits <= 1
    /\ (pc = "done" => quits = 1 /\ exitReason \in {"interrupt", "fatal"})
    /\ (pc = "finally" => exitReason \in {"interrupt", "fatal"})
    /\ (pc \in TryPcs \cup {"boot", "finally"} => quits = 0)

C12_Witness ==
    /\ pc = "done"
    /\ quits = 1
    /\ exitReason = "fatal"
    /\ fatalFrom = "write_text"

\* an item with a zh entry whose title and summary are both non-empty
HasUsableZh(item) == item.has_zh /\ item.title # "" /\ item.summary # ""
Rank(items, k) == Cardinality({j \in 1..k : HasUsableZh(items[j])})

\* C13: the fetch result is exactly the upstream items with a usable zh
\* entry, in the upstream order: nothing added, dropped or re-sorted.
C13_OrderPreservingFilter ==
    pc = "filter_out" =>
        /\ Len(news_list) = Rank(upstream, Len(upstream))
        /\ \A k \in 1..Len(upstream) :
              HasUsableZh(upstream[k]) => news_list[Rank(upstream, k)] = upstream[k]

C13_Witness ==
    /\ pc = "filter_out"
    /\ Len(upstream) = 3
    /\ IdsOf(news_list) = <<id2, id1>>
    /\ ~HasUsableZh(upstream[2])

\* C14 as stated: on every boot path into the poll loop, save_cookies has
\* run in this process before the first fetch.
C14_SavedOnEveryBootPath ==
    (pc \in PollPcs \/ fetchOutcome # "none")
    => cookieFile = "stored" /\ cookieEpoch = run

\* C14 as amended: the cookie file is written by this process before the
\* first fetch exactly when the poll loop was reached through interactive
\* login; after a successful validation it is left as it was.
C14_SavedOnlyAfterLogin ==
    (pc \in PollPcs \/ fetchOutcome # "none")
    => /\ cookieFile = "stored"
       /\ loadResult \in {"nofile", "error", "redirect", "ok"}
       /\ (loadResult = "ok" => cookieEpoch < run /\ ~loginCleared)
       /\ (loadResult # "ok" => cookieEpoch = run)

C14_Witness ==
    /\ loadResult = "ok"
    /\ fetchOutcome = "ok"
    /\ cookieEpoch < run
    /\ pc = "iter"

\* C15: when the marker equals the identifier of the first item of the
\* fetched batch, no item of that batch is passed to publish_micro.
C15_NoNewItemNoPublish ==
    (fetchOutcome = "ok" /\ news_list # <<>> /\ pc \in PollPcs
        /\ cycleStart = news_list[1].id)
    => attempts = <<>>

\* C16: publish_micro never takes the smart_title/summary fallback for an
\* item that came out of get_latest_news_list.
C16_FallbackUnreachable ==
    /\ contentSource # "fallback"
    /\ (pc \in {"publish_try", "publish_settle", "ret"} => contentSource = "zh")

C16_Witness ==
    /\ pc = "publish_try"
    /\ contentSource = "zh"
    /\ news_list[idx].id = id3

\* C17 as stated: at the start of every fetch last_id equals the content
\* of the marker file, or is empty when the file does not exist.
C17_MarkerEqualsFile ==
    pc = "fetch" => IF fileExists THEN last_id = fileText ELSE last_id = Empty

\* C17 as amended: at the start of every fetch last_id and the content of
\* the marker file are equal up to leading and trailing whitespace, and
\* last_id is empty when the file does not exist.
C17_MarkerEqualsStrippedFile ==
    pc = "fetch" =>
        IF fileExists THEN Strip(last_id) = Strip(fileText) ELSE last_id = Empty

C17_Witness ==
    /\ pc = "fetch"
    /\ hadFailure
    /\ skips # <<>>
    /\ last_id = id3
    /\ fileText = id3

\* C18: the skip test uses the marker as updated within the cycle: with
\* distinct identifiers no item is skipped after a success of the same
\* cycle, and at most one item is skipped per cycle.
C18_SkipOnlyBeforeSuccess ==
    DistinctIds(news_list) =>
        /\ Len(skips) <= 1
        /\ \A s \in Range(skips), a \in Range(attempts) : s < a

C18_Witness ==
    /\ pc = "wait"
    /\ skips = <<1>>
    /\ attempts = <<2, 3>>
    /\ published_count = 2
====
